---------------------------- MODULE Spec2Model ----------------------------
(***************************************************************************)
(* A model of the research client in frontend/src/App.js:                  *)
(*   - the App component: handleSubmit, the polling useEffect (setInterval *)
(*     with an async callback), handleRetry, handleResourcesLoaded;        *)
(*   - the WebResources component: the web-resources fetch and its domain  *)
(*     filter, the summary useEffect / fetchUrlSummary, and the debounced  *)
(*     broadcast useEffect;                                                *)
(*   - the ComprehensiveReport component: generateSimpleReport.            *)
(* A handler runs to its next await in one step; the state updates it      *)
(* makes, the render that follows and the effects of that render belong to *)
(* the same step.                                                          *)
(***************************************************************************)
EXTENDS Integers, Sequences, FiniteSets, TLC

VARIABLES
    \* ---- App state (App.js 734-744)
    isLoading, error, taskId, currentStep, researchResults, progress,
    appWebResources, appUrlSummaries,
    \* ---- polling useEffect (App.js 763-841)
    pollInterval,      \* id of the session whose setInterval timer is active, 0 if none
    elapsed,           \* Date.now() - pollingStartTime as the latest session last saw it, in ms
    sessions,          \* number of polling sessions (effect runs) started so far
    ended,             \* the terminal responses and timeouts processed, by session
    pollsInFlight,     \* status requests awaiting their response
    submitsInFlight,   \* submit requests awaiting their response
    submits,           \* number of handleSubmit calls so far
    \* ---- WebResources component (App.js 263-460)
    mounted,           \* id of the mounted WebResources instance, 0 if none
    mountSite,         \* which of the two render sites holds it: "loading" / "results" / "none"
    wrTaskId,          \* taskId prop the fetch effect last ran for
    instances,         \* number of WebResources instances mounted so far
    webResources, urlSummaries, summaryLoadingStates, wrError,
    resourcesLoadedRef,
    handler,           \* TRUE while the 300ms debounce timer is pending
    wrFetches,         \* web-resources requests awaiting their response
    summaryFetches,    \* summary requests awaiting their response
    \* ---- the aggregation transform run on its own
    payload, filteredOut,
    filteredAgain,     \* what a second run on the same payload produced
    \* ---- ComprehensiveReport component (App.js 554-731)
    research,          \* the research prop: query, summary, subtopics
    crUrlSummaries,    \* the urlSummaries prop
    report, generationComplete,
    \* ---- UnifiedSearchBar component (components/UnifiedSearchBar.jsx)
    searchBar,         \* its useState values: taskId, loading, error, progress, results
    searchRequests,    \* /api/search and /api/research posts awaiting their response
    searchPolls,       \* status requests of pollTaskStatus awaiting their response
    searchTimers,      \* pending setTimeout(() => pollTaskStatus(taskId), 2000) callbacks
    searches,          \* handleSearch calls that issued a request so far
    \* ---- observation
    ev,                \* the handler step that produced this state
    deliveries,        \* contents handed to onResourcesLoaded so far, in order
    burst,             \* deliveries since the debounce timer was first armed
    batches            \* the fetchBatch of each run of the summary effect in the
                       \* latest step of the mounted instance that ran it, in order

vars == << isLoading, error, taskId, currentStep, researchResults, progress,
           appWebResources, appUrlSummaries,
           pollInterval, elapsed, sessions, ended, pollsInFlight, submitsInFlight, submits,
           mounted, mountSite, wrTaskId, instances,
           webResources, urlSummaries, summaryLoadingStates, wrError,
           resourcesLoadedRef, handler, wrFetches, summaryFetches,
           payload, filteredOut, filteredAgain, research, crUrlSummaries, report, generationComplete,
           searchBar, searchRequests, searchPolls, searchTimers, searches,
           ev, deliveries, burst, batches >>

appVars  == << isLoading, error, taskId, currentStep, researchResults, progress >>
consVars == << appWebResources, appUrlSummaries >>
pollVars == << pollInterval, elapsed, sessions, ended, pollsInFlight, submitsInFlight, submits >>
wrVars   == << mounted, mountSite, wrTaskId, instances, webResources, urlSummaries,
               summaryLoadingStates, wrError, resourcesLoadedRef, handler,
               wrFetches, summaryFetches >>
reportVars == << research, crUrlSummaries, report, generationComplete >>
searchBarVars == << searchBar, searchRequests, searchPolls, searchTimers, searches >>
aggVars  == << payload, filteredOut, filteredAgain, reportVars, searchBarVars >>
obsVars  == << deliveries, burst, batches >>

Null == "null"

-----------------------------------------------------------------------------
(* Bounds of the exploration                                               *)

MaxLen      == 8    \* length of the long resource lists fed to the transform
ShortLen    == 3    \* longest list drawn from the pool of mixed URL shapes
PollSubmits     == 1      \* handleSubmit calls when App runs alone
PollInFlight    == 2      \* status requests outstanding at once when App runs alone
PollHorizon     == 6000   \* ms of each polling session followed when App runs alone
TimeoutSubmits  == 1      \* handleSubmit calls when a session is followed to its timeout
TimeoutInFlight == 1      \* status requests outstanding at once in that run
ClockCap        == 190000 \* no interval tick is modelled beyond this many ms of a session
ClientSubmits   == 1      \* handleSubmit calls when the whole client runs
ClientHorizon   == 2000   \* ms of each polling session followed when the whole client runs
ManyOfOne       == 10     \* resources of the crowded domain in a two-domain list
FewOfOther      == 2      \* resources of the other domain in a two-domain list
WRSubmits       == 1      \* handleSubmit calls when WebResources is followed before any tick
ResubmitSubmits == 2      \* handleSubmit calls when the task id changes under WebResources
SecondHorizon   == 6000   \* ms of each polling session followed around a second submit
SecondInFlight  == 1      \* status requests outstanding at once around a second submit
SearchSubmits   == 2      \* handleSearch calls of UnifiedSearchBar that issue a request

-----------------------------------------------------------------------------
(* URLs and domain keys.  A string is modelled by its parts: a URL is      *)
(* [scheme, host, path] with host the sequence of dot-separated labels;    *)
(* new URL(u) throws when the scheme is missing.  A bare host name such as *)
(* "a.com" is the string [scheme |-> "", host |-> <<"a","com">>, path |->  *)
(* ""], so a domain key and a raw URL are values of one type, as they are  *)
(* both strings in the code.                                               *)

Str(scheme, host, path) == [scheme |-> scheme, host |-> host, path |-> path]

Parseable(url) == url.scheme # "" /\ Len(url.host) > 0

\* hostname.split('.')
hostnameParts(url) == url.host

\* parts.slice(-2)
LastTwo(parts) == SubSeq(parts, Len(parts) - 1, Len(parts))

\* hostname.replace(/^www\./, '')
StripWww(parts) ==
    IF Len(parts) >= 2 /\ parts[1] = "www" THEN Tail(parts) ELSE parts

\* getDomain with one key for every URL that fails to parse.
getDomainMut(url) ==
    IF Parseable(url)
    THEN LET parts == hostnameParts(url)
         IN  IF Len(parts) > 2
             THEN Str("", LastTwo(parts), "")
             ELSE Str("", StripWww(parts), "")
    ELSE Str("", <<>>, "")
getDomain(url) ==
    IF Parseable(url)
    THEN LET parts == hostnameParts(url)
         IN  IF Len(parts) > 2
             THEN Str("", LastTwo(parts), "")
             ELSE Str("", StripWww(parts), "")
    ELSE url

Resource(url) == [url |-> url]

\* Four URLs of four registrable domains: the least that can exceed the ceiling.
UA == Str("https", <<"www", "a", "com">>, "/1")
UB == Str("https", <<"b", "com">>, "/1")
UC == Str("https", <<"sub", "c", "org">>, "/1")
UD == Str("https", <<"d", "net">>, "/1")
WidePool == {UA, UB, UC, UD}

\* URLs whose keys coincide or fail to parse.
UA2  == Str("https", <<"a", "com">>, "/2")
UA3  == Str("https", <<"blog", "a", "com">>, "/3")
UBad == Str("", <<"not a url">>, "")
UBad2 == Str("", <<"a", "com">>, "")
\* A two-label host name with the www prefix.
UWww == Str("http", <<"www", "localhost">>, "/")
MixedPool == {UA, UA2, UA3, UB, UBad, UBad2, UWww}


-----------------------------------------------------------------------------
(* Optional fields and ordered maps.  A JS object keeps its keys in        *)
(* insertion order, which Object.entries, Object.values and JSON.stringify *)
(* all follow: an object is a sequence of [key, val] entries with distinct *)
(* keys.                                                                   *)

None == <<>>
Some(v) == <<v>>
Has(opt) == Len(opt) > 0
Get(opt) == opt[1]

Entry(k, v) == [key |-> k, val |-> v]
Keys(obj) == {obj[i].key : i \in 1..Len(obj)}
HasKey(obj, k) == \E i \in 1..Len(obj) : obj[i].key = k
Lookup(obj, k) == obj[CHOOSE i \in 1..Len(obj) : obj[i].key = k].val

\* {...prev, [k]: v}: an existing key keeps its place, a new one goes last.
Put(obj, k, v) ==
    IF HasKey(obj, k)
    THEN [i \in 1..Len(obj) |-> IF obj[i].key = k THEN Entry(k, v) ELSE obj[i]]
    ELSE Append(obj, Entry(k, v))

SeqsUpTo(S, n) == UNION {[1..m -> S] : m \in 0..n}

-----------------------------------------------------------------------------
(* The dedup/cap filter of fetchWebResources (App.js 312-332, 337-353).    *)

\* domainCounts[domain] || 0
CountOf(domainCounts, domain) ==
    IF domain \in DOMAIN domainCounts THEN domainCounts[domain] ELSE 0

DomainCap      == 2      \* if (domainCounts[domain] <= 2)
MaxPerSubtopic == 7      \* if (uniqueResources.length >= 7)

\* if (domainCounts[domain] <= 2)
AdmitsMut(n) == n <= DomainCap + 1
AdmitsFirst(n) == n <= 1
Admits(n) == n <= DomainCap

\* The forEach callback.  Its closing "if (uniqueResources.length >= 7) return;"
\* returns from this callback only, after the push: the next element is
\* still visited and still pushed, so the step does not read the length.
FilterStep(acc, resource) ==
    LET domain == getDomain(resource.url)
        n      == CountOf(acc.domainCounts, domain) + 1
        counts == [k \in (DOMAIN acc.domainCounts) \cup {domain} |->
                      IF k = domain THEN n ELSE acc.domainCounts[k]]
    IN  [domainCounts    |-> counts,
         uniqueResources |-> IF Admits(n)
                             THEN Append(acc.uniqueResources, resource)
                             ELSE acc.uniqueResources]

RECURSIVE FilterFrom(_, _, _)
FilterFrom(acc, resources, i) ==
    IF i > Len(resources) THEN acc
    ELSE FilterFrom(FilterStep(acc, resources[i]), resources, i + 1)

\* domainCounts that start from the domains an earlier run has stored.
CarriedCounts ==
    LET out == IF Has(filteredOut) /\ Has(Get(filteredOut).setWebResources)
               THEN Get(Get(filteredOut).setWebResources).entries
               ELSE <<>>
    IN  [k \in UNION {{getDomain(out[b].val[i].url) : i \in 1..Len(out[b].val)} :
                         b \in 1..Len(out)} |-> 1]
\* const domainCounts = {}, declared inside the callback of each bucket.
FreshCounts == [k \in {} |-> 0]

\* const domainCounts = {}; const uniqueResources = []; resources.forEach(...)
FilterList(resources) ==
    FilterFrom([domainCounts |-> FreshCounts, uniqueResources |-> <<>>],
               resources, 1).uniqueResources

\* webResources is useState([]) until a payload is stored, an object after.
EmptyArray == [kind |-> "array", entries |-> <<>>]
Obj(entries) == [kind |-> "object", entries |-> entries]

\* Lines 290-368 as a function of the parsed payload: what setWebResources
\* and setUrlSummaries receive (None: not called) and the two arguments of
\* the direct onResourcesLoaded call.  In the flat branch filteredResources
\* is never assigned and stays {}.
Transform(data) ==
    LET grouped == Has(data.resources_by_subtopic)
        flat    == ~grouped /\ Has(data.resources)
        byTopic == Get(data.resources_by_subtopic)
        filteredResources ==
            IF grouped
            THEN Obj([i \in 1..Len(byTopic) |->
                        Entry(byTopic[i].key, FilterList(byTopic[i].val))])
            ELSE Obj(<<>>)
    IN  [setWebResources |->
             IF grouped THEN Some(filteredResources)
             ELSE IF flat
                  THEN Some(Obj(<< Entry("Main Resources",
                                         FilterList(Get(data.resources))) >>))
                  ELSE None,
         setUrlSummaries |-> data.url_summaries,
         cbResources     |-> filteredResources,
         cbSummaries     |-> IF Has(data.url_summaries)
                             THEN Get(data.url_summaries) ELSE <<>>]

Payload(g, r, s) == [resources_by_subtopic |-> g, resources |-> r, url_summaries |-> s]

\* Payloads fed to the transform on its own: one bucket of MaxLen resources
\* over four domains, one bucket or a flat list of up to ShortLen resources
\* of mixed URL shapes, and two buckets of short lists.  In a list over the
\* four hosts of WidePool each resource has a path of its own, so that the
\* URLs of the list are distinct.
PathOf(i) == << "/1", "/2", "/3", "/4", "/5", "/6", "/7", "/8", "/9", "/10", "/11", "/12",
                "/13", "/14", "/15", "/16" >>[i]
WideHosts == {u.host : u \in WidePool}
WideList(h) == [i \in 1..Len(h) |-> Resource(Str("https", h[i], PathOf(i)))]
MixedLists(n) == SeqsUpTo({Resource(u) : u \in MixedPool}, n)
ShortLists(n) == SeqsUpTo({Resource(u) : u \in {UA, UA2, UB}}, n)
Grouped1(l)    == Payload(Some(<< Entry("Energy", l) >>), None, None)
Grouped2(l, m) == Payload(Some(<< Entry("Energy", l), Entry("Policy", m) >>), None, None)
Flat(l)        == Payload(None, Some(l), None)
\* A list of ManyOfOne + FewOfOther resources, all of x.com except those at
\* the positions `at`, which are of y.com.
TwoDomainList(at) ==
    [i \in 1..(ManyOfOne + FewOfOther) |->
        Resource(Str("https", IF i \in at THEN <<"y", "com">> ELSE <<"x", "com">>, PathOf(i)))]
InitPayload ==
    \/ \E h \in [1..MaxLen -> WideHosts] : payload = Grouped1(WideList(h))
    \/ \E at \in SUBSET (1..(ManyOfOne + FewOfOther)) :
          /\ Cardinality(at) = FewOfOther
          /\ payload = Grouped1(TwoDomainList(at))
    \/ \E l \in MixedLists(ShortLen) : payload \in {Grouped1(l), Flat(l)}
    \/ \E l, m \in ShortLists(ShortLen) : payload = Grouped2(l, m)

-----------------------------------------------------------------------------
(* App: program constants and server answers                               *)

maxPollingTime == 180000     \* const maxPollingTime = 180000
PollPeriod     == 2000       \* setInterval(..., 2000)
researchStepsLength == 7     \* researchSteps has seven entries

Ev(kind, session, status, inst) ==
    [kind |-> kind, session |-> session, status |-> status, inst |-> inst]

\* A status response: the transport failed (network error or !response.ok),
\* or a JSON body whose fields may each be missing.
Transport == [ok |-> FALSE, status |-> None, current_step |-> None,
              progress |-> None, message |-> None, task |-> 0]
Body(task, status, step, prog, msg) ==
    [ok |-> TRUE, status |-> status, current_step |-> step,
     progress |-> prog, message |-> msg, task |-> task]

StatusResponses(task) ==
    {Transport}
      \cup {Body(task, st, None, None, None) :
               st \in {None, Some("completed"), Some("cancelled")}}
      \cup {Body(task, Some("error"), None, None, m) : m \in {None, Some("server said no")}}
      \cup {Body(task, Some("pending"), st, pr, None) :
               st \in {None, Some(3)}, pr \in {None, Some(50)}}

\* A bag of requests: a set of [tag, k], k numbering the copies of a tag.
Copies(bag, tag) == Cardinality({r \in bag : r.tag = tag})
AddReq(bag, tag) == bag \cup {[tag |-> tag, k |-> Copies(bag, tag) + 1]}
DelReq(bag, tag) == bag \ {[tag |-> tag, k |-> Copies(bag, tag)]}
Tags(bag) == {r.tag : r \in bag}

PollTag(session, task) == [session |-> session, task |-> task]

\* What a response is, read off the response itself: "transport", "protocol"
\* (no status field) or its status string.
Kind(resp) ==
    IF ~resp.ok THEN "transport"
    ELSE IF ~Has(resp.status) THEN "protocol"
    ELSE Get(resp.status)

\* The branch of the status dispatch (App.js 786-830) a response takes.
DispatchMut(resp) ==
    IF ~resp.ok THEN "transport"
    ELSE IF ~Has(resp.status) THEN "protocol"
    ELSE IF Get(resp.status) = "completed" THEN "completed"
    ELSE IF Get(resp.status) \in {"pending", "error"} THEN "pending"
    ELSE "unrecognized"
DispatchSkipsProtocol(resp) ==
    IF ~resp.ok THEN "transport"
    ELSE IF ~Has(resp.status) THEN "pending"
    ELSE IF Get(resp.status) \in {"completed", "pending", "error"} THEN Get(resp.status)
    ELSE "unrecognized"
DispatchIgnoresUnknown(resp) ==
    IF ~resp.ok THEN "transport"
    ELSE IF ~Has(resp.status) THEN "protocol"
    ELSE IF Get(resp.status) \in {"completed", "error"} THEN Get(resp.status)
    ELSE "pending"
DispatchRetriesTransport(resp) ==
    IF ~resp.ok THEN "pending"
    ELSE IF ~Has(resp.status) THEN "protocol"
    ELSE IF Get(resp.status) \in {"completed", "pending", "error"} THEN Get(resp.status)
    ELSE "unrecognized"
DispatchPendingEnds(resp) ==
    IF ~resp.ok THEN "transport"
    ELSE IF ~Has(resp.status) THEN "protocol"
    ELSE IF Get(resp.status) \in {"completed", "pending"} THEN "completed"
    ELSE IF Get(resp.status) = "error" THEN "error"
    ELSE "unrecognized"
Dispatch(resp) ==
    IF ~resp.ok THEN "transport"
    ELSE IF ~Has(resp.status) THEN "protocol"
    ELSE IF Get(resp.status) = "completed" THEN "completed"
    ELSE IF Get(resp.status) = "pending" THEN "pending"
    ELSE IF Get(resp.status) = "error" THEN "error"
    ELSE "unrecognized"

\* Date.now() - pollingStartTime > maxPollingTime
TimedOutMut(ms) == FALSE
\* A limit no session reaches.
TimedOutNever(ms) == ms > maxPollingTime + ClockCap
TimedOut(ms) == ms > maxPollingTime

\* The message each branch hands to setError.
ErrorText(branch, resp) ==
    CASE branch = "transport"    -> "Failed to check research status: Server returned / network"
      [] branch = "protocol"     -> "Failed to check research status: Response missing status field"
      [] branch = "error"        -> IF Has(resp.message) THEN Get(resp.message)
                                    ELSE "Research failed with an unknown error"
      [] branch = "unrecognized" -> "Research failed: Unrecognized status"
      [] OTHER                   -> Null
TimeoutText == "Research is taking longer than expected. Please try again later."

-----------------------------------------------------------------------------
(* WebResources: the summary useEffect and fetchUrlSummary (App.js 381-442) *)

BatchSize == 3               \* urlsToFetch.slice(0, 3)

\* urlSummaries[url] as a condition: a missing key and "" are both falsy.
\* A test that finds no summary.
HasSummaryNever(sums, url) == FALSE
HasSummary(sums, url) == HasKey(sums, url) /\ Lookup(sums, url) # ""
\* summaryLoadingStates[url] as a condition.
IsLoadingUrl(loading, url) == HasKey(loading, url) /\ Lookup(loading, url)

\* Object.values(webResources).forEach(resources => resources.forEach(...)):
\* every resource of every bucket in order, a URL once per occurrence.
RECURSIVE AllUrls(_, _)
AllUrls(entries, i) ==
    IF i > Len(entries) THEN <<>>
    ELSE [j \in 1..Len(entries[i].val) |-> entries[i].val[j].url]
           \o AllUrls(entries, i + 1)

RECURSIVE SelectSeq2(_, _, _, _)
SelectSeq2(urls, sums, loading, i) ==
    IF i > Len(urls) THEN <<>>
    ELSE (IF ~HasSummary(sums, urls[i]) /\ ~IsLoadingUrl(loading, urls[i])
          THEN <<urls[i]>> ELSE <<>>)
           \o SelectSeq2(urls, sums, loading, i + 1)

urlsToFetch(wr, sums, loading) == SelectSeq2(AllUrls(wr.entries, 1), sums, loading, 1)

\* The batch without its slice.
fetchBatchAll(wr, sums, loading) == urlsToFetch(wr, sums, loading)
fetchBatch(wr, sums, loading) ==
    LET all == urlsToFetch(wr, sums, loading)
    IN  SubSeq(all, 1, IF Len(all) < BatchSize THEN Len(all) ELSE BatchSize)

\* One run of the summary effect: fetchUrlSummary(url) for each URL of the
\* batch.  Its guard reads the summaryLoadingStates and urlSummaries of the
\* render the effect belongs to, the ones the batch was chosen from, so it
\* passes for every element of the batch, a repeated URL included; each call
\* marks the URL loading and issues a request.
RECURSIVE StartBatch(_, _, _, _)
StartBatch(batch, i, st, inst) ==
    IF i > Len(batch) THEN st
    ELSE StartBatch(batch, i + 1,
                    [loading |-> Put(st.loading, batch[i], TRUE),
                     fetches |-> AddReq(st.fetches, [inst |-> inst, url |-> batch[i]]),
                     batches |-> st.batches],
                    inst)

\* The effect runs again after each render its own state updates cause,
\* until a run finds nothing to fetch.
RECURSIVE SummaryEffect(_, _, _, _)
SummaryEffect(wr, sums, st, inst) ==
    LET batch == fetchBatch(wr, sums, st.loading)
    IN  IF Len(wr.entries) = 0 \/ Len(batch) = 0 THEN st
        ELSE SummaryEffect(wr, sums,
                 StartBatch(batch, 1,
                            [loading |-> st.loading, fetches |-> st.fetches,
                             batches |-> Append(st.batches, batch)],
                            inst),
                 inst)

\* A summary response: a body with or without a summary, or a failure.
SummaryResponses == {"ok", "empty", "fail"}
SummaryTextMut(resp) == "summary text"
\* A failed fetch that stores no text.
SummaryTextBlank(resp) == IF resp = "fail" THEN "" ELSE "summary text"
SummaryText(resp) ==
    CASE resp = "ok"    -> "summary text"
      [] resp = "empty" -> "No summary available."
      [] OTHER          -> "Failed to fetch summary: Server returned / network"

\* JSON.stringify({ resources: webResources, summaries: urlSummaries })
Serialize(wr, sums) == [resources |-> wr, summaries |-> sums]

-----------------------------------------------------------------------------
(* Initial state: App and WebResources as their useState calls leave them  *)

IdlePayload == Payload(None, None, None)

InitClient ==
    /\ isLoading = FALSE /\ error = Null /\ taskId = 0 /\ currentStep = 0
    /\ researchResults = None /\ progress = 0
    /\ appWebResources = Obj(<<>>) /\ appUrlSummaries = <<>>
    /\ pollInterval = 0 /\ elapsed = 0 /\ sessions = 0 /\ ended = {}
    /\ pollsInFlight = {} /\ submitsInFlight = {} /\ submits = 0
    /\ mounted = 0 /\ mountSite = "none" /\ wrTaskId = 0 /\ instances = 0
    /\ webResources = EmptyArray /\ urlSummaries = <<>> /\ summaryLoadingStates = <<>>
    /\ wrError = Null /\ resourcesLoadedRef = None /\ handler = FALSE
    /\ wrFetches = {} /\ summaryFetches = {}
    /\ filteredOut = None /\ filteredAgain = None
    /\ report = <<>> /\ generationComplete = FALSE
    /\ searchBar = [taskId |-> 0, loading |-> FALSE, error |-> "", progress |-> 0,
                    results |-> "none"]
    /\ searchRequests = {} /\ searchPolls = {} /\ searchTimers = {} /\ searches = 0
    /\ ev = Ev("init", 0, "", 0)
    /\ deliveries = <<>> /\ burst = 0 /\ batches = <<>>

\* No research to report on yet.
IdleReport ==
    /\ research = [query |-> "", summary |-> "", subtopics |-> <<>>]
    /\ crUrlSummaries = <<>>

Init == InitClient /\ payload = IdlePayload /\ IdleReport

-----------------------------------------------------------------------------
(* Render: what React does with the state a handler leaves behind          *)

\* The polling useEffect (App.js 763-841), deps [taskId, isLoading]: when a
\* dep changed, the previous run's cleanup clears its interval and, if
\* taskId && isLoading, a new session starts with a new pollingStartTime.
\* `cleared` is the session whose interval the handler itself cleared and
\* `ms` the elapsed time the handler observed.
PollEffect(cleared, ms) ==
    IF taskId' # taskId \/ isLoading' # isLoading
    THEN IF taskId' # 0 /\ isLoading'
         THEN /\ sessions' = sessions + 1
              /\ pollInterval' = sessions + 1
              /\ elapsed' = 0
         ELSE /\ pollInterval' = 0
              /\ elapsed' = ms
              /\ UNCHANGED sessions
    ELSE /\ pollInterval' = IF pollInterval = cleared THEN 0 ELSE pollInterval
         /\ elapsed' = ms
         /\ UNCHANGED sessions

\* Which of the two <WebResources> render sites (App.js 990-994, 1014-1018)
\* the state shows: the first under isLoading && taskId, the second under
\* researchResults.
Site(loading, task, results) ==
    IF loading /\ task # 0 THEN "loading"
    ELSE IF Has(results) THEN "results"
    ELSE "none"

FreshWR ==
    /\ webResources' = EmptyArray /\ urlSummaries' = <<>> /\ summaryLoadingStates' = <<>>
    /\ wrError' = Null /\ resourcesLoadedRef' = None /\ handler' = FALSE

\* Mounting, unmounting and the fetch useEffect (App.js 274-378, deps
\* [taskId, onResourcesLoaded]): a new instance starts from its useState
\* values; the effect issues one request whenever it runs with a taskId.
\* Requests of an unmounted instance stay in flight.
MountEffect ==
    LET site == Site(isLoading', taskId', researchResults')
    IN  IF site = mountSite
        THEN IF site = "none" \/ taskId' = wrTaskId
             THEN UNCHANGED wrVars
             ELSE /\ wrTaskId' = taskId'
                  /\ wrFetches' = IF taskId' # 0
                                  THEN AddReq(wrFetches, [inst |-> mounted, task |-> taskId'])
                                  ELSE wrFetches
                  /\ UNCHANGED << mounted, mountSite, instances, webResources, urlSummaries,
                                  summaryLoadingStates, wrError, resourcesLoadedRef,
                                  handler, summaryFetches >>
        ELSE /\ mountSite' = site
             /\ FreshWR
             /\ UNCHANGED summaryFetches
             /\ IF site = "none"
                THEN /\ mounted' = 0 /\ wrTaskId' = 0
                     /\ UNCHANGED << instances, wrFetches >>
                ELSE /\ instances' = instances + 1
                     /\ mounted' = instances + 1
                     /\ wrTaskId' = taskId'
                     /\ wrFetches' = IF taskId' # 0
                                     THEN AddReq(wrFetches,
                                                 [inst |-> instances + 1, task |-> taskId'])
                                     ELSE wrFetches

-----------------------------------------------------------------------------
(* App handlers                                                            *)

\* handleSubmit up to its await (App.js 843-865).  The submit button is
\* disabled while isLoading.
HandleSubmit ==
    /\ ~isLoading
    /\ isLoading' = TRUE
    /\ error' = Null
    /\ researchResults' = None
    /\ currentStep' = 0
    /\ UNCHANGED << taskId, progress >>
    /\ submits' = submits + 1
    /\ submitsInFlight' = submitsInFlight \cup {submits + 1}
    /\ PollEffect(0, elapsed)
    /\ MountEffect
    /\ ev' = Ev("submit", 0, "", 0)
    /\ UNCHANGED << ended, pollsInFlight, consVars, aggVars, obsVars >>

\* handleSubmit after its await (App.js 867-892).  The server names the
\* task of the n-th submit n.
SubmitResponse(n, resp) ==
    /\ n \in submitsInFlight
    /\ submitsInFlight' = submitsInFlight \ {n}
    /\ IF resp = "ok"
       THEN /\ taskId' = n
            /\ currentStep' = 1
            /\ UNCHANGED << isLoading, error >>
       ELSE /\ error' = "Failed to start research"
            /\ isLoading' = FALSE
            /\ UNCHANGED << taskId, currentStep >>
    /\ UNCHANGED << researchResults, progress >>
    /\ PollEffect(0, elapsed)
    /\ MountEffect
    /\ ev' = Ev("submitResponse", 0, resp, 0)
    /\ UNCHANGED << submits, ended, pollsInFlight, consVars, aggVars, obsVars >>

\* handleSubmit of the second App of the file after its await (App.js
\* 1441-1452): a response without task_id is not told from a good one, so
\* setTaskId stores undefined.
SubmitResponseSecond(n, resp) ==
    /\ n \in submitsInFlight
    /\ submitsInFlight' = submitsInFlight \ {n}
    /\ IF resp = "fail"
       THEN /\ error' = "Failed to start research"
            /\ isLoading' = FALSE
            /\ UNCHANGED << taskId, currentStep >>
       ELSE /\ taskId' = IF resp = "ok" THEN n ELSE 0
            /\ currentStep' = 1
            /\ UNCHANGED << isLoading, error >>
    /\ UNCHANGED << researchResults, progress >>
    /\ PollEffect(0, elapsed)
    /\ MountEffect
    /\ ev' = Ev("submitResponse", 0, resp, 0)
    /\ UNCHANGED << submits, ended, pollsInFlight, consVars, aggVars, obsVars >>

\* The setInterval callback up to its await (App.js 770-784): PollPeriod ms
\* after the previous tick it either declares the timeout or issues the
\* status request for the taskId of its closure.  A request with
\* answered = FALSE is one whose response never arrives.
TickStep(answered) ==
    /\ pollInterval # 0
    /\ elapsed + PollPeriod <= ClockCap
    /\ LET ms == elapsed + PollPeriod
       IN  IF TimedOut(ms)
           THEN /\ error' = TimeoutText
                /\ isLoading' = FALSE
                /\ ended' = ended \cup {[session |-> pollInterval, kind |-> "timeout"]}
                /\ ev' = Ev("timeout", pollInterval, "", 0)
                /\ UNCHANGED << taskId, currentStep, researchResults, progress, pollsInFlight >>
                /\ PollEffect(pollInterval, ms)
           ELSE /\ pollsInFlight' = IF answered
                                    THEN AddReq(pollsInFlight, PollTag(pollInterval, taskId))
                                    ELSE pollsInFlight
                /\ ev' = Ev("poll", pollInterval, "", 0)
                /\ UNCHANGED << appVars, ended >>
                /\ PollEffect(0, ms)
    /\ MountEffect
    /\ UNCHANGED << submits, submitsInFlight, consVars, aggVars, obsVars >>
Tick == TickStep(TRUE)

\* The setInterval callback after its await (App.js 786-836), for the
\* response to one outstanding request.  Nothing in it asks whether the
\* session that issued the request is still the current one.
PollResponse(tag, resp) ==
    /\ tag \in Tags(pollsInFlight)
    /\ pollsInFlight' = DelReq(pollsInFlight, tag)
    /\ LET branch == Dispatch(resp)
       IN  /\ CASE branch = "completed" ->
                     /\ researchResults' = Some([task |-> resp.task, status |-> "completed"])
                     /\ isLoading' = FALSE
                     /\ currentStep' = researchStepsLength
                     /\ UNCHANGED << error, progress >>
                [] branch = "pending" ->
                     /\ currentStep' = IF Has(resp.current_step)
                                       THEN Get(resp.current_step) ELSE currentStep
                     /\ progress' = IF Has(resp.progress) THEN Get(resp.progress) ELSE progress
                     /\ UNCHANGED << isLoading, error, researchResults >>
                [] OTHER ->
                     /\ error' = ErrorText(branch, resp)
                     /\ isLoading' = FALSE
                     /\ UNCHANGED << currentStep, researchResults, progress >>
           /\ UNCHANGED taskId
           /\ ended' = IF Kind(resp) = "pending" THEN ended
                       ELSE ended \cup {[session |-> tag.session, kind |-> Kind(resp)]}
           /\ PollEffect(IF branch = "pending" THEN 0 ELSE tag.session, elapsed)
           /\ ev' = Ev("pollResponse", tag.session, Kind(resp), 0)
    /\ MountEffect
    /\ UNCHANGED << submits, submitsInFlight, consVars, aggVars, obsVars >>

\* handleRetry (App.js 896-910), behind "Try Again" (shown with an error)
\* and "Cancel Research" (shown while loading).  The clear-cache request is
\* fire-and-forget and its answer is only logged.
HandleRetry ==
    /\ error # Null \/ isLoading
    /\ error' = Null
    /\ isLoading' = FALSE
    /\ taskId' = 0
    /\ currentStep' = 0
    /\ researchResults' = None
    /\ UNCHANGED progress
    /\ PollEffect(0, elapsed)
    /\ MountEffect
    /\ ev' = Ev("retry", 0, "", 0)
    /\ UNCHANGED << submits, submitsInFlight, ended, pollsInFlight, consVars, aggVars, obsVars >>

-----------------------------------------------------------------------------
(* WebResources handlers                                                   *)

\* handleResourcesLoaded (App.js 758-761), with the record of the call.
Deliver(resources, summaries) ==
    /\ appWebResources' = resources
    /\ appUrlSummaries' = summaries
    /\ deliveries' = Append(deliveries, Serialize(resources, summaries))

\* Payloads the server answers a web-resources request with.
G1 == Payload(Some(<< Entry("Energy", << Resource(UA), Resource(UB) >>) >>), None, None)
G2 == Payload(Some(<< Entry("Energy", << Resource(UB) >>),
                      Entry("Policy", << Resource(UB) >>) >>), None, None)
F1 == Payload(None, Some(<< Resource(UA), Resource(UB) >>),
              Some(<< Entry(UA, "inline summary") >>))
\* A null element of a resource list: reading its url throws a TypeError.
NullResource == [url |-> Str("null", <<>>, "")]

\* A payload the filter cannot process: the second bucket holds a null, so
\* the forEach callback throws after the first bucket was filtered.
B1 == Payload(Some(<< Entry("Energy", << Resource(UA) >>),
                      Entry("Policy", << NullResource >>) >>),
              None, Some(<< Entry(UA, "inline summary") >>))
WRPayloads == {G1, G2, F1, B1}
\* Five resources of four URLs in two buckets: more than one fetchBatch.
W5 == Payload(Some(<< Entry("Energy", << Resource(UA), Resource(UB), Resource(UC) >>),
                      Entry("Policy", << Resource(UB), Resource(UD) >>) >>), None, None)
\* Two buckets with inline summaries for two of their three URLs.
I3 == Payload(Some(<< Entry("Energy", << Resource(UA), Resource(UB) >>),
                      Entry("Policy", << Resource(UC) >>) >>),
              None, Some(<< Entry(UA, "inline summary"), Entry(UC, "inline summary") >>))
BatchPayloads == {W5, G2, F1, I3}

\* Lines 310-358 throw: some list of the payload holds a null element.
Throws(data) ==
    LET lists == IF Has(data.resources_by_subtopic)
                 THEN {Get(data.resources_by_subtopic)[i].val :
                          i \in 1..Len(Get(data.resources_by_subtopic))}
                 ELSE IF Has(data.resources) THEN {Get(data.resources)} ELSE {}
    IN  \E l \in lists : \E i \in 1..Len(l) : l[i] = NullResource

\* setError("Failed to fetch relevant web resources")
FetchErrorTextMut == Null
FetchErrorText == "Failed to fetch relevant web resources"

\* fetchWebResources after its await (App.js 284-374).  The state setters
\* of an instance that was unmounted meanwhile do nothing; the direct
\* onResourcesLoaded call of line 367 is made in either case.  A response
\* that is not ok and a payload the filter throws on both end in the catch
\* block, before any setter or the callback was reached.
WRFetchResponse(tag, ok, data) ==
    /\ tag \in Tags(wrFetches)
    /\ wrFetches' = DelReq(wrFetches, tag)
    /\ LET live == tag.inst = mounted
           t    == Transform(data)
       IN  IF ~ok \/ Throws(data)
           THEN /\ wrError' = IF live THEN FetchErrorText ELSE wrError
                /\ ev' = Ev("wrFetchFailed", 0, IF ok THEN "payload" ELSE "response", tag.inst)
                /\ UNCHANGED << webResources, urlSummaries, summaryLoadingStates,
                                summaryFetches, handler, consVars, obsVars >>
           ELSE LET wr      == IF live /\ Has(t.setWebResources)
                               THEN Get(t.setWebResources) ELSE webResources
                    sums    == IF live /\ Has(t.setUrlSummaries)
                               THEN Get(t.setUrlSummaries) ELSE urlSummaries
                    changed == live /\ (Has(t.setWebResources) \/ Has(t.setUrlSummaries))
                    st      == IF live
                               THEN SummaryEffect(wr, sums,
                                        [loading |-> summaryLoadingStates,
                                         fetches |-> summaryFetches, batches |-> <<>>],
                                        mounted)
                               ELSE [loading |-> summaryLoadingStates,
                                     fetches |-> summaryFetches, batches |-> <<>>]
                IN  /\ webResources' = wr
                    /\ urlSummaries' = sums
                    /\ summaryLoadingStates' = st.loading
                    /\ summaryFetches' = st.fetches
                    /\ Deliver(t.cbResources, t.cbSummaries)
                    \* broadcast useEffect: a changed dep re-arms the timer
                    /\ handler' = IF changed
                                  THEN Len(wr.entries) > 0 \/ Len(sums) > 0
                                  ELSE handler
                    /\ burst' = IF changed /\ ~handler THEN 1 ELSE burst + 1
                    /\ batches' = IF live THEN st.batches ELSE batches
                    /\ ev' = Ev("wrFetched", 0, "", tag.inst)
                    /\ UNCHANGED wrError
    /\ UNCHANGED << mounted, mountSite, wrTaskId, instances, resourcesLoadedRef >>
    /\ UNCHANGED << appVars, pollVars, aggVars >>

\* fetchUrlSummary after its await (App.js 419-441): the summary or the
\* failure text is stored under the URL and the loading flag cleared.
SummaryResponse(tag, resp) ==
    /\ tag \in Tags(summaryFetches)
    /\ LET live == tag.inst = mounted
           rest == DelReq(summaryFetches, tag)
       IN  IF ~live
           THEN /\ summaryFetches' = rest
                /\ UNCHANGED << webResources, urlSummaries, summaryLoadingStates,
                                handler, burst, batches >>
           ELSE LET sums == Put(urlSummaries, tag.url, SummaryText(resp))
                    st   == SummaryEffect(webResources, sums,
                                [loading |-> Put(summaryLoadingStates, tag.url, FALSE),
                                 fetches |-> rest, batches |-> <<>>],
                                mounted)
                IN  /\ urlSummaries' = sums
                    /\ summaryLoadingStates' = st.loading
                    /\ summaryFetches' = st.fetches
                    /\ handler' = TRUE
                    /\ burst' = IF handler THEN burst ELSE 0
                    /\ batches' = st.batches
                    /\ UNCHANGED webResources
    /\ ev' = Ev("summary", 0, resp, tag.inst)
    /\ UNCHANGED << mounted, mountSite, wrTaskId, instances, wrError, resourcesLoadedRef,
                    wrFetches, deliveries >>
    /\ UNCHANGED << appVars, pollVars, consVars, aggVars >>

\* The setTimeout callback of the broadcast useEffect (App.js 449-456),
\* 300ms after the last change of webResources or urlSummaries.
DebounceFire ==
    /\ handler
    /\ handler' = FALSE
    /\ LET currentData == Serialize(webResources, urlSummaries)
       IN  IF resourcesLoadedRef # Some(currentData)
           THEN /\ resourcesLoadedRef' = Some(currentData)
                /\ Deliver(webResources, urlSummaries)
                /\ burst' = burst + 1
                /\ UNCHANGED batches
           ELSE UNCHANGED << resourcesLoadedRef, consVars, obsVars >>
    /\ ev' = Ev("debounce", 0, "", mounted)
    /\ UNCHANGED << mounted, mountSite, wrTaskId, instances, webResources, urlSummaries,
                    summaryLoadingStates, wrError, wrFetches, summaryFetches >>
    /\ UNCHANGED << appVars, pollVars, aggVars >>

-----------------------------------------------------------------------------
(* UnifiedSearchBar (components/UnifiedSearchBar.jsx)                      *)

\* The part of the other component state that the search bar leaves alone.
notSearchBar == << appVars, consVars, pollVars, wrVars, payload, filteredOut, filteredAgain,
                   reportVars, obsVars >>

\* handleSearch up to its await (UnifiedSearchBar.jsx 71-90, 94-98), behind
\* a form whose input and button are disabled while loading.  A query of
\* less than 3 characters only sets the error.
handleSearch(valid, searchType) ==
    /\ ~searchBar.loading
    /\ IF ~valid
       THEN /\ searchBar' = [searchBar EXCEPT !.error = "Please enter a search query"]
            /\ UNCHANGED << searchRequests, searches >>
       ELSE /\ searchBar' = [searchBar EXCEPT !.loading = TRUE, !.error = "",
                                             !.results = "none", !.taskId = 0]
            /\ searches' = searches + 1
            /\ searchRequests' = searchRequests
                                    \cup {[type |-> searchType, task |-> searches + 1]}
    /\ ev' = Ev("search", 0, searchType, 0)
    /\ UNCHANGED << searchPolls, searchTimers, notSearchBar >>

\* handleSearch after its await (UnifiedSearchBar.jsx 91-137).  The server
\* names the task of the n-th search n; a research answer may carry
\* immediate results; pollTaskStatus(task_id) issues the first status
\* request.
SearchResponse(req, resp) ==
    /\ req \in searchRequests
    /\ searchRequests' = searchRequests \ {req}
    /\ CASE resp = "fail" ->
              /\ searchBar' = [searchBar EXCEPT !.error = "Error performing search",
                                               !.loading = FALSE]
              /\ UNCHANGED searchPolls
         [] resp # "fail" /\ req.type = "quick" ->
              /\ searchBar' = [searchBar EXCEPT !.results = "results", !.loading = FALSE]
              /\ UNCHANGED searchPolls
         [] OTHER ->
              /\ searchBar' = [searchBar EXCEPT
                                  !.taskId = req.task,
                                  !.results = IF resp = "immediate" THEN "immediate" ELSE @]
              /\ searchPolls' = AddReq(searchPolls, req.task)
    /\ ev' = Ev("searchResponse", req.task, resp, 0)
    /\ UNCHANGED << searchTimers, searches, notSearchBar >>

\* `statusResponse.data.status === 'pending'` (UnifiedSearchBar.jsx 144): the
\* branch that ends with setTimeout(() => pollTaskStatus(taskId), 2000).
ContinuesAlways(status) == TRUE
Continues(status) == status = "pending"

\* pollTaskStatus after its await (UnifiedSearchBar.jsx 142-199), for the
\* response to a status request of `task`: "pending", "completed", another
\* status, or a failed request.  `percent` is data.progress * 100, 0 when
\* the response has no progress.
pollTaskStatus(task, status, percent) ==
    /\ task \in Tags(searchPolls)
    /\ searchPolls' = DelReq(searchPolls, task)
    /\ searchBar' =
          CASE status = "pending" ->
                 [searchBar EXCEPT !.progress = IF percent # 0 THEN percent ELSE @]
            [] status = "completed" ->
                 [searchBar EXCEPT !.loading = FALSE, !.results = "sources"]
            [] status = "transport" ->
                 [searchBar EXCEPT !.loading = FALSE,
                                   !.error = "Error checking research status"]
            [] OTHER ->
                 [searchBar EXCEPT !.loading = FALSE, !.error = "Research failed"]
    /\ searchTimers' = IF Continues(status) THEN AddReq(searchTimers, task) ELSE searchTimers
    /\ ev' = Ev("searchPoll", task, status, 0)
    /\ UNCHANGED << searchRequests, searches, notSearchBar >>

\* The setTimeout callback of line 151, 2000 ms after it was set:
\* pollTaskStatus(taskId) up to its await (UnifiedSearchBar.jsx 140-142).
PollTimerFires(task) ==
    /\ task \in Tags(searchTimers)
    /\ searchTimers' = DelReq(searchTimers, task)
    /\ searchPolls' = AddReq(searchPolls, task)
    /\ ev' = Ev("searchTimer", task, "", 0)
    /\ UNCHANGED << searchBar, searchRequests, searches, notSearchBar >>

-----------------------------------------------------------------------------
(* The transform on its own: one run of lines 290-358 on a drawn payload   *)

RunTransform ==
    /\ ~Has(filteredOut)
    /\ filteredOut' = Some(Transform(payload))
    /\ ev' = Ev("transform", 0, "", 0)
    /\ UNCHANGED << payload, filteredAgain, reportVars, searchBarVars,
                    appVars, consVars, pollVars, wrVars, obsVars >>

\* A later run of the same lines on the same payload.
RunAgain ==
    /\ Has(filteredOut) /\ ~Has(filteredAgain)
    /\ filteredAgain' = Some(Transform(payload))
    /\ ev' = Ev("transformAgain", 0, "", 0)
    /\ UNCHANGED << payload, filteredOut, reportVars, searchBarVars,
                    appVars, consVars, pollVars, wrVars, obsVars >>

-----------------------------------------------------------------------------
(* ComprehensiveReport.generateSimpleReport (App.js 611-662).  A text is   *)
(* the sequence of its whitespace-separated words; the report is the       *)
(* sequence of its lines.                                                   *)

RelevantCap == 2             \* relevantSummaries.slice(0, 2)

\* A value of the summary map: a string, or an object whose summary field
\* may be missing.
StringSummary(text) == [type |-> "string", summary |-> Some(text)]
ObjectSummary(opt)  == [type |-> "object", summary |-> opt]

\* typeof summary === 'string' ? summary : summary.summary || ''
summaryText(v) ==
    IF v.type = "string" THEN Get(v.summary)
    ELSE IF Has(v.summary) THEN Get(v.summary) ELSE <<>>

\* toLowerCase() of a word of the vocabulary.
toLowerCase(w) ==
    CASE w = "Solar"  -> "solar"
      [] w = "Energy" -> "energy"
      [] w = "The"    -> "the"
      [] w = "Grid"   -> "grid"
      [] OTHER        -> w

\* keyword.length > 3, over the vocabulary.
LongKeyword(keyword) == keyword \notin {"the", "are"}

\* summaryText.toLowerCase().includes(keyword): no word of the vocabulary is
\* part of another, so a keyword occurs in a text iff it is one of its words.
includes(text, keyword) == \E i \in 1..Len(text) : toLowerCase(text[i]) = keyword

\* subtopic.toLowerCase().split(/\s+/)
subtopicKeywords(subtopic) == {toLowerCase(subtopic[i]) : i \in 1..Len(subtopic)}

\* The filter of lines 624-629 followed by the map of 630-633.
RECURSIVE relevantSummaries(_, _, _)
relevantSummaries(subtopic, sums, i) ==
    IF i > Len(sums) THEN <<>>
    ELSE (IF \E keyword \in subtopicKeywords(subtopic) :
                includes(summaryText(sums[i].val), keyword) /\ LongKeyword(keyword)
          THEN << summaryText(sums[i].val) >> ELSE <<>>)
           \o relevantSummaries(subtopic, sums, i + 1)

NoUrl == Str("", <<>>, "")
Line(kind, text, n, url) == [kind |-> kind, text |-> text, n |-> n, url |-> url]

\* One "## subtopic" section: the first RelevantCap relevant summaries, or
\* "Information on <subtopic> is still being compiled."
Section(subtopic, sums) ==
    LET rel  == relevantSummaries(subtopic, sums, 1)
        used == SubSeq(rel, 1, IF Len(rel) < RelevantCap THEN Len(rel) ELSE RelevantCap)
    IN  << Line("heading", subtopic, 0, NoUrl) >>
        \o (IF Len(rel) > 0
            THEN [j \in 1..Len(used) |-> Line("summary", used[j], 0, NoUrl)]
            ELSE << Line("compiling", subtopic, 0, NoUrl) >>)

RECURSIVE Sections(_, _, _)
Sections(subtopics, sums, i) ==
    IF i > Len(subtopics) THEN <<>>
    ELSE Section(subtopics[i], sums) \o Sections(subtopics, sums, i + 1)

\* `${index + 1}. [${hostname}](${url})`, hostname = new URL(url).hostname
References(sums) ==
    [i \in 1..Len(sums) |-> Line("reference", sums[i].key.host, i, sums[i].key)]

\* setReport(`Failed to generate report: ${error.message}`)
FailedReport == << Line("failed", <<"Failed to generate report: Invalid URL">>, 0, NoUrl) >>

\* The try block and its catch: new URL(url) of line 650 throws on the
\* first key it cannot parse, and the content built so far is dropped.
\* `complete` is whether setGenerationComplete(true) was reached.
SimpleReport(res, sums) ==
    IF \E i \in 1..Len(sums) : ~Parseable(sums[i].key)
    THEN [report |-> FailedReport, complete |-> FALSE]
    ELSE [report |->
             << Line("title", <<"Comprehensive Report on", res.query>>, 0, NoUrl),
                Line("heading", <<"Executive Summary">>, 0, NoUrl),
                Line("summary", <<res.summary>>, 0, NoUrl) >>
             \o Sections(res.subtopics, sums, 1)
             \o << Line("heading", <<"References">>, 0, NoUrl) >>
             \o References(sums),
          complete |-> TRUE]

\* The "Generate Report" button, rendered while !generationComplete.
generateSimpleReport ==
    /\ ~generationComplete
    /\ LET out == SimpleReport(research, crUrlSummaries)
       IN  /\ report' = out.report
           /\ generationComplete' = out.complete
    /\ ev' = Ev("report", 0, "", 0)
    /\ UNCHANGED << research, crUrlSummaries, payload, filteredOut, filteredAgain,
                    searchBarVars, appVars, consVars, pollVars, wrVars, obsVars >>

\* The props the report is generated from: up to MaxSubtopics subtopics and
\* a summary map of up to MaxSummaries distinct URLs, one of them
\* unparseable, with string and object summaries.
MaxSubtopics == 2
MaxSummaries == 3
ReportSubtopics == {<<"Solar", "Energy">>, <<"The", "Grid">>}
ReportUrls == {UA, UB, UBad}
ReportSummaries ==
    {StringSummary(<<"text1">>),
     StringSummary(<<"solar", "panels", "are", "the", "future">>),
     ObjectSummary(Some(<<"Grid", "storage">>)),
     ObjectSummary(None)}
SummaryMaps(n) ==
    {m \in SeqsUpTo({Entry(u, v) : u \in ReportUrls, v \in ReportSummaries}, n) :
        \A i, j \in 1..Len(m) : i # j => m[i].key # m[j].key}
InitReport ==
    /\ InitClient
    /\ payload = IdlePayload
    /\ \E subtopics \in SeqsUpTo(ReportSubtopics, MaxSubtopics) :
          research = [query |-> "Q", summary |-> "S", subtopics |-> subtopics]
    /\ crUrlSummaries \in SummaryMaps(MaxSummaries)

-----------------------------------------------------------------------------
(* Specifications                                                          *)

WRFetchResponses ==
    \E tag \in Tags(wrFetches) :
        \/ WRFetchResponse(tag, FALSE, IdlePayload)
        \/ \E data \in WRPayloads : WRFetchResponse(tag, TRUE, data)
SummaryArrivals ==
    \E tag \in Tags(summaryFetches), resp \in SummaryResponses : SummaryResponse(tag, resp)

\* The aggregation transform over every payload of InitPayload.
InitAgg == InitClient /\ InitPayload /\ IdleReport
SpecAgg == InitAgg /\ [][RunTransform]_vars

\* The transform run twice on every payload of InitPayload.
TwiceNext ==
    \/ RunTransform
    \/ RunAgain
SpecTwice == InitAgg /\ [][TwiceNext]_vars

SubmitResponses ==
    \E n \in submitsInFlight, resp \in {"ok", "no_task_id", "fail"} : SubmitResponse(n, resp)
PollResponses ==
    \E tag \in Tags(pollsInFlight) : \E resp \in StatusResponses(tag.task) :
        PollResponse(tag, resp)

\* The server answering a status request with a failure, "completed" or a
\* bare "pending".
PlainStatusResponses(task) ==
    {Transport, Body(task, Some("completed"), None, None, None),
     Body(task, Some("pending"), None, None, None)}
PlainPollResponses ==
    \E tag \in Tags(pollsInFlight) : \E resp \in PlainStatusResponses(tag.task) :
        PollResponse(tag, resp)

\* The App component alone (submit, polling, retry): PollSubmits submits,
\* each polling session followed for PollHorizon ms with at most
\* PollInFlight requests outstanding.
PollSubmit == HandleSubmit /\ submits < PollSubmits
PollTick ==
    Tick /\ elapsed' <= PollHorizon /\ Cardinality(pollsInFlight') <= PollInFlight
PollNext ==
    \/ PollSubmit
    \/ SubmitResponses
    \/ PollTick
    \/ PollResponses
    \/ HandleRetry
SpecPoll == Init /\ [][PollNext]_vars

\* The App component alone with every polling session followed to the end
\* of the clock, the server answering as in PlainStatusResponses.
TimeoutSubmit == HandleSubmit /\ submits < TimeoutSubmits
TimeoutTick == Tick /\ Cardinality(pollsInFlight') <= TimeoutInFlight
TimeoutNext ==
    \/ TimeoutSubmit
    \/ SubmitResponses
    \/ TimeoutTick
    \/ PlainPollResponses
    \/ HandleRetry
SpecTimeout == Init /\ [][TimeoutNext]_vars

\* The App component without retry, when every submit request is answered
\* in the end and the interval keeps firing.  Each tick issues a request
\* that is answered at some time, at most TimeoutInFlight of them being
\* outstanding, or one that is never answered.
TerminationTick ==
    \/ Tick /\ Cardinality(pollsInFlight') <= TimeoutInFlight
    \/ TickStep(FALSE)
TerminationNext ==
    \/ TimeoutSubmit
    \/ SubmitResponses
    \/ TerminationTick
    \/ PlainPollResponses
SpecTermination ==
    Init /\ [][TerminationNext]_vars
         /\ WF_vars(SubmitResponses) /\ WF_vars(TerminationTick)

\* The whole client for a bounded stretch: ClientSubmits submits, each
\* polling session followed for ClientHorizon ms, the server answering as
\* in PlainStatusResponses.
ClientSubmit == HandleSubmit /\ submits < ClientSubmits
ClientTick == Tick /\ elapsed' <= ClientHorizon
Next ==
    \/ ClientSubmit
    \/ SubmitResponses
    \/ ClientTick
    \/ PlainPollResponses
    \/ HandleRetry
    \/ WRFetchResponses
    \/ SummaryArrivals
    \/ DebounceFire
Spec == Init /\ [][Next]_vars

\* WebResources under the submit and retry handlers of App, every run
\* observed before the first interval tick of its polling sessions.
WRSubmit == HandleSubmit /\ submits < WRSubmits
WRNext ==
    \/ WRSubmit
    \/ SubmitResponses
    \/ HandleRetry
    \/ WRFetchResponses
    \/ SummaryArrivals
    \/ DebounceFire
SpecWR == Init /\ [][WRNext]_vars

\* One WebResources instance from its mount on, the server answering its
\* request with a payload of BatchPayloads.
BatchFetchResponses ==
    \E tag \in Tags(wrFetches), data \in BatchPayloads : WRFetchResponse(tag, TRUE, data)
BatchNext ==
    \/ WRSubmit
    \/ SubmitResponses
    \/ BatchFetchResponses
    \/ SummaryArrivals
    \/ DebounceFire
SpecBatch == Init /\ [][BatchNext]_vars

\* One WebResources instance whose summary requests are all answered in
\* the end, with a summary or a failure; the debounce timer is left
\* pending.
LiveArrivals ==
    \E tag \in Tags(summaryFetches), resp \in {"ok", "fail"} : SummaryResponse(tag, resp)
LiveNext ==
    \/ WRSubmit
    \/ SubmitResponses
    \/ BatchFetchResponses
    \/ LiveArrivals
SpecLive == Init /\ [][LiveNext]_vars /\ WF_vars(LiveArrivals)

\* The same with a second submit, whose answer changes the taskId prop of
\* the mounted WebResources instance.
Resubmit == HandleSubmit /\ submits < ResubmitSubmits
ResubmitNext ==
    \/ Resubmit
    \/ SubmitResponses
    \/ HandleRetry
    \/ WRFetchResponses
    \/ SummaryArrivals
    \/ DebounceFire
SpecResubmit == Init /\ [][ResubmitNext]_vars

\* App with a second submit and no retry, polls issued one at a time and
\* the server answering as in PlainStatusResponses.
SecondTick ==
    Tick /\ elapsed' <= SecondHorizon /\ Cardinality(pollsInFlight') <= SecondInFlight
SecondNext ==
    \/ Resubmit
    \/ SubmitResponses
    \/ SecondTick
    \/ PlainPollResponses
SpecSecond == Init /\ [][SecondNext]_vars

\* The second App of the file (App.js 1312-1535) around its handleSubmit.
\* Its polling effect (1332-1381) and the first lines of handleSubmit
\* (1427-1431) read as those of the first App, and it answers the
\* responses of PlainStatusResponses in the same way.
SubmitResponsesSecond ==
    \E n \in submitsInFlight, resp \in {"ok", "no_task_id", "fail"} :
        SubmitResponseSecond(n, resp)
VariantNext ==
    \/ Resubmit
    \/ SubmitResponsesSecond
    \/ SecondTick
    \/ PlainPollResponses
SpecVariant == Init /\ [][VariantNext]_vars

\* UnifiedSearchBar on its own: SearchSubmits searches of either type.
SearchSubmit ==
    \E valid \in BOOLEAN, searchType \in {"quick", "comprehensive"} :
        handleSearch(valid, searchType) /\ searches' <= SearchSubmits
SearchResponses ==
    \E req \in searchRequests, resp \in {"ok", "immediate", "fail"} : SearchResponse(req, resp)
StatusArrivals ==
    \E task \in Tags(searchPolls), percent \in {0, 50, 100},
       status \in {"pending", "completed", "failed", "transport"} :
        pollTaskStatus(task, status, percent)
PollTimers == \E task \in Tags(searchTimers) : PollTimerFires(task)
SearchNext ==
    \/ SearchSubmit
    \/ SearchResponses
    \/ StatusArrivals
    \/ PollTimers
SpecSearch == Init /\ [][SearchNext]_vars

\* generateSimpleReport over every research and summary map of InitReport.
SpecReport == InitReport /\ [][generateSimpleReport]_vars

-----------------------------------------------------------------------------
(* Claims about the aggregation transform (SpecAgg)                        *)

\* The buckets a run of the transform stored with setWebResources.
Buckets == IF Has(filteredOut) /\ Has(Get(filteredOut).setWebResources)
           THEN Get(Get(filteredOut).setWebResources).entries
           ELSE <<>>

\* The input lists of the payload, bucket by bucket.
Inputs == IF Has(payload.resources_by_subtopic) THEN Get(payload.resources_by_subtopic)
          ELSE IF Has(payload.resources) THEN << Entry("Main Resources", Get(payload.resources)) >>
          ELSE <<>>

FromDomain(list, k) == {i \in 1..Len(list) : getDomain(list[i].url) = k}
DomainsOf(list) == {getDomain(list[i].url) : i \in 1..Len(list)}

\* C1: after the transform every subtopic bucket holds at most 7 resources,
\* whatever the input list.
C1_BucketAtMostSeven ==
    \A b \in 1..Len(Buckets) : Len(Buckets[b].val) <= MaxPerSubtopic

\* C2: after the transform, in every subtopic bucket and for every domain
\* key, at most 2 of the admitted resources have that domain.
C2_PerDomainAtMostTwo ==
    \A b \in 1..Len(Buckets) :
        \A k \in DomainsOf(Buckets[b].val) :
            Cardinality(FromDomain(Buckets[b].val, k)) <= DomainCap

\* The cap binds: some input bucket offers more than 2 resources of one
\* domain, under different URLs, and the stored bucket keeps exactly 2.
C2_Witness ==
    \E b \in 1..Len(Buckets) :
        \E k \in DomainsOf(Inputs[b].val) :
            /\ Cardinality(FromDomain(Inputs[b].val, k)) > DomainCap
            /\ Cardinality({Inputs[b].val[i].url : i \in FromDomain(Inputs[b].val, k)}) > 1
            /\ Cardinality(FromDomain(Buckets[b].val, k)) = DomainCap

\* The bucket the dedup/cap rule prescribes for an input list: a resource is
\* admitted exactly when fewer than 2 earlier resources of the list have its
\* domain and fewer than 7 have been admitted before it.
RECURSIVE Prescribed(_, _, _)
Prescribed(list, i, admitted) ==
    IF i > Len(list) THEN admitted
    ELSE LET earlier == {j \in 1..(i - 1) : getDomain(list[j].url) = getDomain(list[i].url)}
         IN  Prescribed(list, i + 1,
                        IF Cardinality(earlier) < 2 /\ Len(admitted) < 7
                        THEN Append(admitted, list[i]) ELSE admitted)

\* C18: every bucket is the subsequence of its input list that the rule
\* prescribes: input order kept, nothing foreign, a resource admitted exactly
\* when fewer than 2 earlier resources share its domain and fewer than 7
\* were admitted before it.
C18_FirstSeenFirstServed ==
    \A b \in 1..Len(Buckets) :
        Buckets[b].val = Prescribed(Inputs[b].val, 1, <<>>)

\* The input buckets made of two domains only, each offering at least 2.
TwoDomainBuckets ==
    {b \in 1..Len(Buckets) :
        /\ Cardinality(DomainsOf(Inputs[b].val)) = 2
        /\ \A k \in DomainsOf(Inputs[b].val) :
              Cardinality(FromDomain(Inputs[b].val, k)) >= 2}

\* C19: a bucket fed 10 resources of x.com and 2 of y.com, in any order,
\* holds exactly 2 of each, 4 in total (so does every bucket fed two domains
\* with at least 2 resources each).
C19_TwoFromEachDomain ==
    \A b \in TwoDomainBuckets :
        /\ Len(Buckets[b].val) = 4
        /\ \A k \in DomainsOf(Inputs[b].val) :
              Cardinality(FromDomain(Buckets[b].val, k)) = 2

\* The transform has run on 10 resources of x.com and 2 of y.com, the two
\* of y.com last.
C19_Witness ==
    /\ Has(filteredOut)
    /\ \E b \in TwoDomainBuckets :
          LET input == Inputs[b].val
          IN  /\ Len(input) = 12
              /\ Cardinality(FromDomain(input, Str("", <<"x", "com">>, ""))) = 10
              /\ Cardinality(FromDomain(input, Str("", <<"y", "com">>, ""))) = 2
              /\ getDomain(input[11].url) = Str("", <<"y", "com">>, "")
              /\ getDomain(input[12].url) = Str("", <<"y", "com">>, "")

\* C20: for a payload with a flat resources list and no
\* resources_by_subtopic, the stored map is the single bucket
\* "Main Resources" holding the filtered list, and the map handed to the
\* consumer for this payload is that same map.
C20_FlatShapeOneBucket ==
    (Has(filteredOut) /\ ~Has(payload.resources_by_subtopic) /\ Has(payload.resources))
        => /\ Len(Buckets) = 1
           /\ Buckets[1].key = "Main Resources"
           /\ Buckets[1].val = Prescribed(Get(payload.resources), 1, <<>>)
           /\ Get(filteredOut).cbResources = Get(Get(filteredOut).setWebResources)

-----------------------------------------------------------------------------
(* Claims about the StatusPoller (SpecPoll, SpecTimeout)                   *)

\* The values handleRetry leaves.  isLoading is TRUE after a later submit,
\* and that submit's answer sets error or taskId, so apart from the initial
\* state these are the states after a retry that no later submit touched.
AfterRetry ==
    /\ ~isLoading /\ error = Null /\ taskId = 0
    /\ currentStep = 0 /\ ~Has(researchResults)

\* C3: after retry()/cancel no response to a status poll of the cancelled
\* session changes error, isLoading, currentStep, progress or
\* researchResults: they keep the values retry gave them until a new submit.
C3_NoMutationAfterCancel ==
    [][(AfterRetry /\ ev'.kind = "pollResponse")
          => UNCHANGED << error, isLoading, currentStep, progress, researchResults >>]_vars

PollsOf(s) == {r \in pollsInFlight : r.tag.session = s}

\* C4: at every instant of a polling session at most one of its status
\* requests is in flight.
C4_PollsSequential ==
    \A s \in 1..sessions : Cardinality(PollsOf(s)) <= 1

Processed(s, kinds) == \E r \in ended : r.session = s /\ r.kind \in kinds

\* C5: once a session has processed a response with status "completed" or
\* "error", its timer is stopped and it issues no further status poll.
C5_NoPollAfterTerminal ==
    \A s \in 1..sessions :
        Processed(s, {"completed", "error"})
            => /\ pollInterval # s
               /\ ~(ev.kind = "poll" /\ ev.session = s)

\* A terminal response has just been processed while another request of
\* the same session is still outstanding.
C5_Witness ==
    /\ ev.kind = "pollResponse" /\ ev.status \in {"completed", "error"}
    /\ PollsOf(ev.session) # {}

\* C6: a session still polling when more than maxPollingTime has passed is
\* halted by the tick that sees it: the timer is never active past the
\* budget, the timeout error is set with isLoading false, and the session
\* issues no status poll after the timeout was declared.
C6_TimeoutHaltsPolling ==
    /\ pollInterval # 0 => elapsed <= maxPollingTime
    /\ ev.kind = "timeout" => error = TimeoutText /\ ~isLoading /\ pollInterval = 0
    /\ \A s \in 1..sessions :
          Processed(s, {"timeout"})
              => pollInterval # s /\ ~(ev.kind = "poll" /\ ev.session = s)

\* The timeout has just been declared, with a request still outstanding.
C6_Witness ==
    /\ ev.kind = "timeout" /\ error = TimeoutText
    /\ elapsed > maxPollingTime
    /\ PollsOf(ev.session) # {}

\* The session that processed a response of one of `kinds` has no timer
\* and issues no status request.
Halted(kinds) ==
    \A s \in 1..sessions :
        Processed(s, kinds) => pollInterval # s /\ ~(ev.kind = "poll" /\ ev.session = s)

\* The state a failed poll leaves: the error shown, not loading, no timer.
FailedWith(text) == error = text /\ ~isLoading /\ pollInterval = 0

\* C12: a status response without a status field ends the session with an
\* error (error set, isLoading false); it is not retried and no further
\* status poll is issued.
C12_MissingStatusEndsSession ==
    /\ (ev.kind = "pollResponse" /\ ev.status = "protocol")
          => FailedWith(ErrorText("protocol", Transport))
    /\ Halted({"protocol"})

\* A response without status has just been processed while a second
\* request of the session is outstanding.
C12_Witness ==
    /\ ev.kind = "pollResponse" /\ ev.status = "protocol"
    /\ error = ErrorText("protocol", Transport)
    /\ PollsOf(ev.session) # {}

Unrecognized(status) == status \notin {"transport", "protocol", "pending", "completed", "error"}

\* C13: a status string other than pending, completed or error fails the
\* session with the unrecognized-status error (error set, isLoading false,
\* timer stopped); the response is neither retried nor ignored, and it does
\* not set the research results.
C13_UnrecognizedStatusFails ==
    /\ [](/\ (ev.kind = "pollResponse" /\ Unrecognized(ev.status))
                => FailedWith(ErrorText("unrecognized", Transport))
          /\ \A s \in 1..sessions :
                (\E r \in ended : r.session = s /\ Unrecognized(r.kind))
                    => pollInterval # s /\ ~(ev.kind = "poll" /\ ev.session = s))
    /\ [][(ev'.kind = "pollResponse" /\ Unrecognized(ev'.status))
             => UNCHANGED researchResults]_vars

\* An unrecognized status has just been processed in a session that was
\* loading, a second request of it still outstanding.
C13_Witness ==
    /\ ev.kind = "pollResponse" /\ Unrecognized(ev.status)
    /\ error = ErrorText("unrecognized", Transport) /\ ~Has(researchResults)
    /\ PollsOf(ev.session) # {}

\* C14: a transport failure on one status poll terminates the session:
\* error set, isLoading false, timer stopped, the poll not retried.
C14_TransportFailureEndsSession ==
    /\ (ev.kind = "pollResponse" /\ ev.status = "transport")
          => FailedWith(ErrorText("transport", Transport))
    /\ Halted({"transport"})

\* A transport failure has just been processed while a second request of
\* the session is outstanding.
C14_Witness ==
    /\ ev.kind = "pollResponse" /\ ev.status = "transport"
    /\ error = ErrorText("transport", Transport)
    /\ PollsOf(ev.session) # {}

-----------------------------------------------------------------------------
(* Claims about SummaryFetcher, ResultBroadcaster and retry (Spec)         *)

\* C7: for every URL at most one summary fetch is in flight at any instant.
C7_OneFetchPerUrl ==
    \A r1, r2 \in summaryFetches : r1.tag.url = r2.tag.url => r1 = r2

\* C8: onResourcesLoaded is never invoked twice with the same
\* {resources, summaries} content.
C8_NoRepeatedDelivery ==
    \A i, j \in 1..Len(deliveries) : i # j => deliveries[i] # deliveries[j]

\* C9: when the quiet period after a burst of changes ends, the consumer has
\* received exactly one delivery for the burst, carrying the final state.
C9_OneDeliveryPerBurst ==
    ev.kind = "debounce"
        => /\ burst = 1
           /\ Len(deliveries) > 0
           /\ deliveries[Len(deliveries)] = Serialize(webResources, urlSummaries)

\* C10: after retry() the task id is null, the step 0, the results null and
\* the resources and summaries held for consumers are empty.
C10_RetryResetsAll ==
    ev.kind = "retry"
        => /\ taskId = 0 /\ currentStep = 0 /\ ~Has(researchResults)
           /\ Len(appWebResources.entries) = 0
           /\ Len(appUrlSummaries) = 0
-----------------------------------------------------------------------------
(* Claims about the summary entries of WebResources (SpecWR, SpecResubmit) *)

\* The URLs the mounted instance holds any summary state for.
SummaryUrls == {urlSummaries[i].key : i \in 1..Len(urlSummaries)}
                 \cup {summaryLoadingStates[i].key : i \in 1..Len(summaryLoadingStates)}

\* C11: for every URL, the summary entry is never at once marked loading and
\* populated with summary text.
C11_NeverLoadingAndPopulated ==
    \A u \in SummaryUrls :
        ~(IsLoadingUrl(summaryLoadingStates, u) /\ HasSummary(urlSummaries, u))

\* C15: a web-resources fetch that fails, by a non-success response or by a
\* payload that cannot be processed, leaves the resource map and the
\* summaries as they were (empty when nothing was loaded before, never
\* partly filled), records the fetch error in the mounted instance and
\* makes no call to the consumer.
C15_FailedFetchLeavesNothing ==
    [][ev'.kind = "wrFetchFailed"
          => /\ UNCHANGED << webResources, urlSummaries, summaryLoadingStates >>
             /\ UNCHANGED << appWebResources, appUrlSummaries, deliveries >>
             /\ ev'.inst = mounted => wrError' # Null]_vars

\* The payload whose second bucket is null has just failed in the mounted
\* instance: nothing of its first bucket or of its url_summaries is held.
C15_Witness ==
    /\ ev.kind = "wrFetchFailed" /\ ev.status = "payload" /\ ev.inst = mounted
    /\ wrError # Null
    /\ Len(webResources.entries) = 0 /\ Len(urlSummaries) = 0 /\ deliveries = <<>>

\* What the reader of a resource sees when its summary fetch failed.
FailureShown == "Failed to fetch summary: Server returned / network"

\* urlSummaries[v] and summaryLoadingStates[v] as they are read.
SummaryOf(sums, v) == IF HasKey(sums, v) THEN Lookup(sums, v) ELSE ""

\* C16: when the summary fetch for URL u fails in the mounted instance, the
\* failure message becomes u's summary text and u's loading flag false; no
\* other URL's summary changes and no other URL's loading flag changes,
\* unless the effect starts that URL's own fetch in the same render; error,
\* isLoading, the other App state and the polling session are untouched.
C16_SummaryFailureIsLocal ==
    [][(ev'.kind = "summary" /\ ev'.status = "fail" /\ ev'.inst = mounted)
          => /\ \E r \in summaryFetches \ summaryFetches' :
                  LET u == r.tag.url
                  IN  /\ SummaryOf(urlSummaries', u) = FailureShown
                      /\ HasKey(summaryLoadingStates', u)
                      /\ ~IsLoadingUrl(summaryLoadingStates', u)
                      /\ \A v \in (SummaryUrls \cup SummaryUrls') \ {u} :
                            /\ SummaryOf(urlSummaries', v) = SummaryOf(urlSummaries, v)
                            /\ \/ IsLoadingUrl(summaryLoadingStates', v)
                                    = IsLoadingUrl(summaryLoadingStates, v)
                               \/ /\ IsLoadingUrl(summaryLoadingStates', v)
                                  /\ \E n \in summaryFetches' \ summaryFetches :
                                        n.tag.url = v
             /\ UNCHANGED << appVars, pollVars >>]_vars

\* A summary fetch has just failed while another URL of the instance is
\* still loading.
C16_Witness ==
    /\ ev.kind = "summary" /\ ev.status = "fail" /\ ev.inst = mounted
    /\ \E u, v \in SummaryUrls :
          /\ u # v
          /\ SummaryOf(urlSummaries, u) = FailureShown
          /\ IsLoadingUrl(summaryLoadingStates, v)

\* C17: within one WebResources instance the summary state of a URL only
\* moves absent -> loading -> summarized: an entry of urlSummaries is never
\* removed, and a URL that has summary text is not marked loading again and
\* gets no new fetch, whatever responses arrive and however the task id
\* changes.
C17_SummaryStateMonotone ==
    [][(mounted # 0 /\ mounted' = mounted)
          => \A u \in SummaryUrls :
                /\ HasKey(urlSummaries, u) => HasKey(urlSummaries', u)
                /\ (HasSummary(urlSummaries, u) /\ ~IsLoadingUrl(summaryLoadingStates, u))
                      => /\ ~IsLoadingUrl(summaryLoadingStates', u)
                         /\ ~\E n \in summaryFetches' \ summaryFetches :
                               n.tag.url = u /\ n.tag.inst = mounted]_vars

-----------------------------------------------------------------------------
(* Claims about the web-resources fetch and the task id (Spec)             *)

\* The web-resources requests a step issues.
IssuedWR == wrFetches' \ wrFetches

\* C21: a web-resources request is issued only by a step that changes the
\* task id, and then exactly one, for the new id: for a task id that stays
\* the same no second request is issued, in particular not when the session
\* goes from loading to completed.
C21_OneFetchPerTaskIdChange ==
    [][/\ IssuedWR # {} => taskId' # taskId
       /\ (taskId' # taskId /\ taskId' # 0)
             => /\ Cardinality(IssuedWR) = 1
                /\ \A r \in IssuedWR : r.tag.task = taskId']_vars

-----------------------------------------------------------------------------
(* Claims about the report assembler (SpecReport)                          *)

\* The texts of the lines of one kind from line `from` on, in order.
RECURSIVE TextsOf(_, _)
TextsOf(kind, from) ==
    IF from > Len(report) THEN <<>>
    ELSE (IF report[from].kind = kind THEN << report[from].text >> ELSE <<>>)
           \o TextsOf(kind, from + 1)

AllParseable == \A i \in 1..Len(crUrlSummaries) : Parseable(crUrlSummaries[i].key)

\* C22: the assembled report has the title line for the query, an
\* executive summary holding the summary, after it one subsection per
\* (url, summary) pair of the map, in insertion order, holding that
\* summary's text, and one numbered reference per URL naming its hostname.
C22_ReportHoldsEverySummary ==
    (ev.kind = "report" /\ AllParseable)
        => /\ Len(report) >= 3
           /\ report[1] = Line("title", <<"Comprehensive Report on", research.query>>, 0, NoUrl)
           /\ report[3] = Line("summary", <<research.summary>>, 0, NoUrl)
           /\ TextsOf("summary", 4)
                 = [i \in 1..Len(crUrlSummaries) |-> summaryText(crUrlSummaries[i].val)]
           /\ \A i \in 1..Len(crUrlSummaries) :
                 \E j \in 1..Len(report) :
                    report[j] = Line("reference", crUrlSummaries[i].key.host, i,
                                     crUrlSummaries[i].key)

\* C23: with an empty summary map the assembled report holds a placeholder
\* section saying that no summaries are available.
C23_EmptyMapGetsPlaceholder ==
    (ev.kind = "report" /\ Len(crUrlSummaries) = 0)
        => \E j \in 1..Len(report) : report[j].kind \in {"compiling", "no summaries"}

\* C24: when the N-th URL of the map cannot be parsed the report is still
\* assembled: reference N carries the label "Source N" and every parseable
\* URL has its hostname reference.
C24_UnparseableUrlGetsSourceN ==
    (ev.kind = "report" /\ ~AllParseable)
        => /\ generationComplete
           /\ \A i \in 1..Len(crUrlSummaries) :
                 \E j \in 1..Len(report) :
                    report[j] = Line("reference",
                                     IF Parseable(crUrlSummaries[i].key)
                                     THEN crUrlSummaries[i].key.host ELSE <<"Source">>,
                                     i, crUrlSummaries[i].key)

-----------------------------------------------------------------------------
(* Claims about the domain key and the purity of the transform (SpecAgg)   *)

\* The key as the rule states it: the raw URL when it does not parse,
\* otherwise the host name without a leading "www.", cut to its last two
\* labels when more than two are left.
KeyRule(url) ==
    IF ~Parseable(url) THEN url
    ELSE LET h == StripWww(url.host)
         IN  Str("", IF Len(h) > 2 THEN LastTwo(h) ELSE h, "")

Occurrences(list, url) == Cardinality({i \in 1..Len(list) : list[i].url = url})

\* C25: every resource of the payload is counted under the key of the rule
\* (www.a.com, a.com and blog.a.com under one key); two distinct URLs that
\* fail to parse have distinct keys, and of an unparseable URL whose key no
\* parseable URL of the list shares the bucket keeps every occurrence up to
\* the domain cap, whatever other unparseable URLs the list holds.
C25_DomainKey ==
    Has(filteredOut)
        => \A b \in 1..Len(Inputs) :
              LET list == Inputs[b].val
                  urls == {list[i].url : i \in 1..Len(list)}
                  bad  == {u \in urls : ~Parseable(u)}
              IN  /\ \A u \in urls : getDomain(u) = KeyRule(u)
                  /\ \A u, v \in bad : u # v => getDomain(u) # getDomain(v)
                  /\ \A u \in bad :
                        (\A v \in urls \ bad : getDomain(v) # getDomain(u))
                           => Occurrences(Buckets[b].val, u)
                                 = (IF Occurrences(list, u) < DomainCap
                                    THEN Occurrences(list, u) ELSE DomainCap)

\* Two distinct unparseable URLs in one list, one of them twice, all kept;
\* and the three spellings of a.com in one list.
C25_Witness ==
    /\ Has(filteredOut)
    /\ Len(Inputs) = 1
    /\ \/ /\ Inputs[1].val = << Resource(UBad), Resource(UBad2), Resource(UBad) >>
          /\ Len(Buckets[1].val) = 3
       \/ /\ Inputs[1].val = << Resource(UA), Resource(UA2), Resource(UA3) >>
          /\ Len(Buckets[1].val) = 2

-----------------------------------------------------------------------------
(* Claims about concurrent requests (SpecPoll, SpecSecond, SpecResubmit)   *)

\* The sessions a terminal outcome (response or timeout) was applied for.
EndedSessions == {e.session : e \in ended}

\* C27: once a terminal outcome of a polling session was applied, no later
\* response of that session changes error, researchResults or currentStep.
C27_OneTerminalOutcome ==
    [][\A r \in pollsInFlight \ pollsInFlight' :
          r.tag.session \in EndedSessions
             => UNCHANGED << error, researchResults, currentStep >>]_vars

\* C28: every status poll is issued for the task of the most recent submit
\* (the n-th submit starts task n), and the result held is never about an
\* earlier task than the most recent submit's.
C28_PollsFollowLatestSubmit ==
    /\ [](Has(researchResults) => Get(researchResults).task = submits)
    /\ [][\A r \in pollsInFlight' \ pollsInFlight : r.tag.task = submits']_vars

\* C29: the answer to a web-resources request made for a task id that is
\* no longer the current one changes neither the resource map nor the
\* summaries the component holds.
C29_LateResourcesDiscarded ==
    [][\A r \in wrFetches \ wrFetches' :
          r.tag.task # taskId => UNCHANGED << webResources, urlSummaries >>]_vars

\* C30: after retry()/cancel during a submit request the late answer to
\* that submit sets neither the task id nor the current step: they stay
\* null and 0 until the next submit.
C30_CancelledSubmitIgnored ==
    [][(AfterRetry /\ submitsInFlight' # submitsInFlight /\ submits' = submits)
          => (taskId' = 0 /\ currentStep' = 0)]_vars

-----------------------------------------------------------------------------
(* Claims about the batches of the summary effect (SpecBatch)              *)

\* The URLs of the resource map, in bucket order, that have no summary and
\* are not in `busy`; and the first three of them.
RECURSIVE Lacking(_, _, _, _)
Lacking(urls, sums, busy, i) ==
    IF i > Len(urls) THEN <<>>
    ELSE (IF ~HasSummary(sums, urls[i]) /\ urls[i] \notin busy THEN << urls[i] >> ELSE <<>>)
           \o Lacking(urls, sums, busy, i + 1)
FirstThree(q) == SubSeq(q, 1, IF Len(q) < 3 THEN Len(q) ELSE 3)

Elems(q) == {q[i] : i \in 1..Len(q)}
BatchUrls(bs, n) == UNION {Elems(bs[i]) : i \in 1..n}
LoadingUrls(loading) == {u \in Keys(loading) : IsLoadingUrl(loading, u)}

\* C31: each run of the summary effect starts at most 3 fetches, for the
\* first URLs in bucket order that have no summary and are neither loading
\* nor taken by an earlier run.
C31_ThreePerTrigger ==
    [][(ev'.kind \in {"wrFetched", "summary"} /\ ev'.inst = mounted')
          => \A i \in 1..Len(batches') :
                /\ Len(batches'[i]) <= 3
                /\ batches'[i]
                      = FirstThree(Lacking(AllUrls(webResources'.entries, 1), urlSummaries',
                                           (LoadingUrls(summaryLoadingStates')
                                               \ BatchUrls(batches', Len(batches')))
                                              \cup BatchUrls(batches', i - 1),
                                           1))]_vars

\* Two runs in one step, the first with three fetches, leave more than
\* three requests in flight.
C31_Witness ==
    /\ Len(batches) = 2
    /\ Len(batches[1]) = 3
    /\ Cardinality(summaryFetches) > 3

-----------------------------------------------------------------------------
(* Claims about the pending branch and the submit failures (SpecPoll)      *)

\* C32: processing a status response with status "pending" leaves
\* isLoading, error, researchResults and the task id unchanged and the
\* polling timer as it was; only currentStep and progress may change.
C32_PendingFrame ==
    [][(ev'.kind = "pollResponse" /\ ev'.status = "pending")
          => UNCHANGED << isLoading, error, researchResults, taskId, pollInterval >>]_vars

\* A pending response that carried current_step and progress was processed
\* and the timer is active.
C32_Witness ==
    /\ ev.kind = "pollResponse" /\ ev.status = "pending"
    /\ pollInterval # 0 /\ isLoading
    /\ currentStep = 3 /\ progress = 50

-----------------------------------------------------------------------------
(* Claims about the progress of WebResources (SpecLive, SpecQuiet)         *)

Admitted(u) == u \in Elems(AllUrls(webResources.entries, 1))
Summarized(u) == HasSummary(urlSummaries, u) /\ ~IsLoadingUrl(summaryLoadingStates, u)

\* C33: when every summary request is answered in the end, every URL of
\* the resource map eventually has summary text and is not loading, also
\* when the map holds more URLs than one batch.
C33_SummaryLiveness ==
    <>[](\A u \in {UA, UB, UC, UD} : Admitted(u) => Summarized(u))

\* The four URLs of W5, the last of them left to a second batch, all
\* summarized.
C33_Witness ==
    /\ \A u \in {UA, UB, UC, UD} : Admitted(u) /\ Summarized(u)
    /\ ev.kind = "summary"

\* Nothing is pending for the mounted instance or for App: no request in
\* flight, no interval and no debounce timer.
Quiet ==
    /\ mounted # 0 /\ ~handler
    /\ wrFetches = {} /\ summaryFetches = {}
    /\ pollInterval = 0 /\ pollsInFlight = {} /\ submitsInFlight = {}

\* C34: once the resources and summaries of the active instance have
\* stopped changing and are not both empty, the consumer ends up holding
\* them: when nothing is pending any more, what handleResourcesLoaded
\* stored last is the final state of the instance.
C34_ConsumerHoldsFinalState ==
    (Quiet /\ (Len(webResources.entries) > 0 \/ Len(urlSummaries) > 0))
        => /\ appWebResources = webResources
           /\ appUrlSummaries = urlSummaries

-----------------------------------------------------------------------------
(* Claims about the end of a session (SpecTermination)                     *)

\* C35: after a submit whose request is answered, with the interval
\* firing, the session leaves the loading state with results or an error,
\* also when the server says "pending" for ever or never answers a poll.
C35_SessionTerminates ==
    isLoading ~> (~isLoading /\ (Has(researchResults) \/ error # Null))

\* A session that was ended by the timeout alone, with a request still
\* unanswered.
C35_Witness ==
    /\ ~isLoading /\ error = TimeoutText
    /\ ev.kind = "timeout"
    /\ ended = {[session |-> 1, kind |-> "timeout"]}
    /\ pollsInFlight # {}

-----------------------------------------------------------------------------
(* Claims about inline summaries (SpecBatch)                               *)

\* The URLs whose entry in urlSummaries is the text the payload supplied.
InlineUrls ==
    {urlSummaries[i].key : i \in {j \in 1..Len(urlSummaries) :
                                     urlSummaries[j].val = "inline summary"}}

-----------------------------------------------------------------------------
(* Claims about a refused submit (SpecSecond, SpecVariant)                 *)

\* C37: a submit answered with a failure or without task_id ends with an
\* error and isLoading false, leaves the held task id as it was and leaves
\* no polling session behind.
C37_RefusedSubmitEndsInError ==
    [][(ev'.kind = "submitResponse" /\ ev'.status \in {"fail", "no_task_id"})
          => /\ error' = "Failed to start research"
             /\ ~isLoading'
             /\ taskId' = taskId
             /\ pollInterval' = 0]_vars

-----------------------------------------------------------------------------
(* Claims about the order of summary responses (SpecWR)                    *)

\* The summary requests of the mounted instance that await their response,
\* and the orders in which they can be answered.
Awaited == {r \in summaryFetches : r.tag.inst = mounted}
Orders(S) ==
    {o \in [1..Cardinality(S) -> S] : \A i, j \in 1..Cardinality(S) : i # j => o[i] # o[j]}

\* urlSummaries after the requests of `order` from the i-th on were answered
\* in that order, request r with the response resp[r]: the functional
\* update of fetchUrlSummary (App.js 423-426, 430-433) for each of them.
RECURSIVE Completed(_, _, _, _)
Completed(sums, order, resp, i) ==
    IF i > Len(order) THEN sums
    ELSE Completed(Put(sums, order[i].tag.url, SummaryText(resp[order[i]])), order, resp, i + 1)
AsMap(sums) == {<< sums[i].key, sums[i].val >> : i \in 1..Len(sums)}

\* C38: with the response of every awaited summary request fixed, the
\* mapping url -> summary text that is held once all of them were answered
\* is the same for every order of the answers.
C38_KeyedByUrlNotArrival ==
    \A resp \in [Awaited -> SummaryResponses] :
        \A o1, o2 \in Orders(Awaited) :
            AsMap(Completed(urlSummaries, o1, resp, 1))
                = AsMap(Completed(urlSummaries, o2, resp, 1))

-----------------------------------------------------------------------------
(* Claims about the polls of UnifiedSearchBar (SpecSearch)                 *)

\* The status requests in flight and the timers pending for a task.
Pending(task) == Copies(searchPolls, task) + Copies(searchTimers, task)

\* C39: the status polls of one research task never overlap: at any time
\* a task has at most one request in flight or one timer pending; a timer
\* is set only by the handling of a "pending" response of that task; and
\* after any other response loading is false and the task has neither a
\* request nor a timer left.
C39_PollsNeverOverlap ==
    /\ [](\A task \in 1..SearchSubmits + 1 : Pending(task) <= 1)
    /\ [][/\ \A task \in 1..SearchSubmits + 1 :
                Copies(searchTimers', task) > Copies(searchTimers, task)
                    => /\ ev' = Ev("searchPoll", task, "pending", 0)
                       /\ Copies(searchPolls, task) = 1
          /\ (ev'.kind = "searchPoll" /\ ev'.status # "pending")
                => /\ ~searchBar'.loading
                   /\ Copies(searchPolls', ev'.session) = 0
                   /\ Copies(searchTimers', ev'.session) = 0]_vars

\* The second status request of a task is in flight, after a "pending"
\* response and the timer it set.
C39_Witness ==
    /\ ev = Ev("searchTimer", 1, "", 0)
    /\ searchBar.loading /\ searchBar.progress = 50
    /\ Pending(1) = 1 /\ Copies(searchPolls, 1) = 1
=============================================================================
